---- MODULE Spec2Model ----
(***************************************************************************)
(* IndieStore: the document persistence and query-filter layer.            *)
(*                                                                         *)
(* The repository holds two routing variants over the same two collections *)
(* ("product", "order"):                                                   *)
(*   "root"    : src/main.py, synchronous, talks to the store directly;    *)
(*   "backend" : src/backend/main.py over src/backend/database.py.         *)
(* A behaviour of the model is one deployment: `variant` is fixed by Init. *)
(*                                                                         *)
(* Strings the code inspects (names, descriptions, categories, query       *)
(* inputs, identifiers) are sequences of one-character strings.            *)
(* Optional values are sequences of length 0 (None) or 1.                  *)
(* A price in a request is a whole number of thousandths of the major      *)
(* unit; what the handlers compute from it is a float (section "Floating   *)
(* point").                                                                *)
(*                                                                         *)
(* Every action is one call to the store, or the local code of a handler   *)
(* up to a reading of the clock: the handlers of src/main.py run on a      *)
(* thread pool and those of src/backend/main.py are coroutines that yield  *)
(* at every await, so other requests run between two calls of one handler  *)
(* and between its reading of the clock and the write that carries it.     *)
(* inflight[p] holds the local variables of the handler that p is running; *)
(* `last` is the reply that has just been produced, NoReply once it has    *)
(* been sent.                                                              *)
(***************************************************************************)
EXTENDS Integers, Sequences, FiniteSets, TLC

VARIABLES variant, dbOk, product, order, nextOid, now, last, inflight

vars == <<variant, dbOk, product, order, nextOid, now, last, inflight>>

(***************************************************************************)
(* Bounds                                                                  *)
(***************************************************************************)
\* a create is served while the store has handed out fewer identifiers than this
MaxDocs == 2
\* last instant of the clock
MaxClock == 1
\* requests, or starting processes, that may be under way at once
Workers == 2
\* points of one run of a seed routine (between two writes of insert_many in
\* src/main.py, at an await of the loop in src/backend/main.py) at which other
\* processes take steps before the routine goes on
MaxYields == 1

(***************************************************************************)
(* Generic helpers                                                         *)
(***************************************************************************)
Range(s) == {s[i] : i \in 1..Len(s)}

Min(a, b) == IF a <= b THEN a ELSE b

Abs(n) == IF n < 0 THEN 0 - n ELSE n

\* the first n elements of s (all of s when n >= Len(s))
Take(s, n) == SubSeq(s, 1, Min(n, Len(s)))

\* s without its element at position i
RemoveAt(s, i) == SubSeq(s, 1, i - 1) \o SubSeq(s, i + 1, Len(s))

(***************************************************************************)
(* Characters                                                              *)
(***************************************************************************)
UpperChars == <<"A","B","C","D","E","F","G","H","I","J","K","L","M",
                "N","O","P","Q","R","S","T","U","V","W","X","Y","Z">>
LowerChars == <<"a","b","c","d","e","f","g","h","i","j","k","l","m",
                "n","o","p","q","r","s","t","u","v","w","x","y","z">>

LowerChar(c) ==
    IF \E i \in 1..Len(UpperChars) : UpperChars[i] = c
    THEN LowerChars[CHOOSE i \in 1..Len(UpperChars) : UpperChars[i] = c]
    ELSE c

\* str.lower()
Lower(s) == [i \in 1..Len(s) |-> LowerChar(s[i])]

\* the characters str.strip() removes (str.isspace); a character that cannot be
\* written in a string of this language is named by its code point
Whitespace ==
    {"\t", "\n", "", "\f", "\r", "", "", "", "", " ", "", " ",
     "U+1680", "U+2000", "U+2001", "U+2002", "U+2003", "U+2004", "U+2005",
     "U+2006", "U+2007", "U+2008", "U+2009", "U+200A", "U+2028", "U+2029",
     "U+202F", "U+205F", "U+3000"}

IsSpace(c) == c \in Whitespace

(***************************************************************************)
(* Identifiers: ObjectId(str) and str(ObjectId)                            *)
(* A native identifier is a natural number; its string form is IdLen       *)
(* lowercase hexadecimal digits (24 in bson, IdLen here).                  *)
(***************************************************************************)
IdLen == 2

HexChars == <<"0","1","2","3","4","5","6","7","8","9","a","b","c","d","e","f">>

IsHex(c) == \E i \in 1..Len(HexChars) : HexChars[i] = LowerChar(c)

HexVal(c) == (CHOOSE i \in 1..Len(HexChars) : HexChars[i] = LowerChar(c)) - 1

RECURSIVE Pow16(_)
Pow16(n) == IF n = 0 THEN 1 ELSE 16 * Pow16(n - 1)

\* ObjectId(doc_id) raises for anything but IdLen hexadecimal digits
ValidId(s) == Len(s) = IdLen /\ \A i \in 1..Len(s) : IsHex(s[i])

RECURSIVE ParseHex(_)
ParseHex(s) ==
    IF s = <<>> THEN 0
    ELSE 16 * ParseHex(SubSeq(s, 1, Len(s) - 1)) + HexVal(s[Len(s)])

\* ObjectId(doc_id), defined when ValidId(doc_id)
ObjectId(s) == ParseHex(s)

\* str(oid): fixed width, lowercase
StrId(oid) ==
    [i \in 1..IdLen |-> HexChars[((oid \div Pow16(IdLen - i)) % 16) + 1]]

\* the first identifier the store generates
FirstOid == HexVal("a")

(***************************************************************************)
(* Request bodies.  A body is a record holding the fields the caller       *)
(* supplied; the request schema fills in the rest (pydantic defaults).     *)
(***************************************************************************)
Vase == <<"V","a","s","e">>
Tray == <<"T","r","a","y">>
Mug == <<"M","u","g">>
HomeDecor == <<"h","o","m","e"," ","d","e","c","o","r">>
Kit == <<"k","i","t">>
Pet == <<"p","e","t">>

\* one thousandth of the major unit is 1; a minor unit (a hundredth) is 10
MinorUnit == 10
Major == 100 * MinorUnit

\* a body giving every field, and one giving only the required ones
ProductBodies ==
    { [name |-> Mug, description |-> <<Vase>>, price |-> 550 * MinorUnit,
       images |-> <<"/images/mug.jpg">>, categories |-> <<Kit>>,
       in_stock |-> FALSE, rating |-> 38],
      [name |-> Tray, price |-> 1899 * Major] }

\* the fields of ProductIn / ProductBase
ProductInFields ==
    {"name", "description", "price", "images", "categories", "in_stock", "rating"}

\* rating default, in tenths: Field(4.5, ...) in src/main.py, Field(default=0, ...)
\* in src/backend/schemas.py
DefaultRating(v) == IF v = "root" THEN 45 ELSE 0

ProductDefaults(v) ==
    [description |-> <<>>, images |-> <<>>, categories |-> <<>>,
     in_stock |-> TRUE, rating |-> DefaultRating(v)]

\* ProductIn(**body).model_dump(): every schema field, defaults for the omitted
ProductDump(v, body) ==
    [k \in ProductInFields |->
        IF k \in DOMAIN body THEN body[k] ELSE ProductDefaults(v)[k]]

\* order items: quantity, price (thousandths), referenced product id
Items1 == << [product_id |-> StrId(FirstOid), quantity |-> 2, price |-> 1000 * MinorUnit],
             [product_id |-> StrId(FirstOid + 1), quantity |-> 1, price |-> 550 * MinorUnit] >>
\* 0.1 + 0.2 + 0.3, whose float sum depends on how it is added up
Items2 == << [product_id |-> StrId(FirstOid), quantity |-> 1, price |-> 10 * MinorUnit],
             [product_id |-> StrId(FirstOid + 1), quantity |-> 1, price |-> 20 * MinorUnit],
             [product_id |-> StrId(FirstOid), quantity |-> 1, price |-> 30 * MinorUnit] >>
\* a price with no exact float: three at 0.10
Items3 == << [product_id |-> StrId(FirstOid), quantity |-> 3, price |-> 10 * MinorUnit] >>

OrderBodies ==
    { [items |-> Items1, customer_name |-> "Asha", customer_email |-> "asha@example.com",
       address |-> "12 Lake Road"],
      [items |-> Items2, customer_name |-> "Ravi", customer_email |-> "ravi@example.com",
       address |-> "7 Hill Street", status |-> "paid"],
      [items |-> Items3, customer_name |-> "Asha", customer_email |-> "asha@example.com",
       address |-> "12 Lake Road"] }

\* OrderIn (src/main.py) has no status; OrderCreate (backend) defaults it
OrderInFields(v) ==
    IF v = "root" THEN {"items", "customer_name", "customer_email", "address"}
    ELSE {"items", "customer_name", "customer_email", "address", "status"}

\* the request model of create_order, as a record of its fields
OrderParse(v, body) ==
    [k \in OrderInFields(v) |->
        IF k \in DOMAIN body THEN body[k] ELSE "pending"]

(***************************************************************************)
(* Documents                                                               *)
(***************************************************************************)
\* {**a, **b}: b's fields over a's
Merge(a, b) ==
    [k \in (DOMAIN a) \cup (DOMAIN b) |-> IF k \in DOMAIN b THEN b[k] ELSE a[k]]

\* to_str_id / doc["id"] = str(doc.pop("_id"))
to_str_id(doc) ==
    [k \in ((DOMAIN doc) \ {"_id"}) \cup {"id"} |->
        IF k = "id" THEN StrId(doc["_id"]) ELSE doc[k]]

\* response models of the backend: Product(**doc), Order(**doc) keep declared fields
ProductFields == ProductInFields \cup {"id", "created_at", "updated_at"}
OrderFields ==
    {"items", "customer_name", "customer_email", "address", "status",
     "id", "created_at", "updated_at"}

Product(doc) == [k \in ProductFields |-> doc[k]]
Order(doc) == [k \in OrderFields |-> doc[k]]

(***************************************************************************)
(* The document store: a collection is the sequence of its documents in    *)
(* insertion (natural) order.                                              *)
(***************************************************************************)
\* positions of the documents with this _id
Positions(coll, oid) == {i \in 1..Len(coll) : coll[i]["_id"] = oid}

FirstPos(coll, oid) == CHOOSE i \in Positions(coll, oid) : \A j \in Positions(coll, oid) : i <= j

\* collection.find_one({"_id": oid}): None (<<>>) or the document
FindOne(coll, oid) ==
    IF Positions(coll, oid) = {} THEN <<>> ELSE <<coll[FirstPos(coll, oid)]>>

\* collection.insert_one(data): the store assigns _id
InsertOne(coll, data, oid) == Append(coll, Merge(data, [_id |-> oid]))

\* collection.update_one({"_id": oid}, {"$set": data}); no upsert
UpdateOneSet(coll, oid, data) ==
    IF Positions(coll, oid) = {} THEN coll
    ELSE [coll EXCEPT ![FirstPos(coll, oid)] = Merge(@, data)]

\* matched_count of that update_one
MatchedCount(coll, oid) == IF Positions(coll, oid) = {} THEN 0 ELSE 1

\* a delete whose filter falls back to the first document when nothing matches
DeleteOneLoose(coll, oid) ==
    IF coll = <<>> THEN coll
    ELSE IF Positions(coll, oid) = {} THEN Tail(coll)
    ELSE RemoveAt(coll, FirstPos(coll, oid))

\* collection.delete_one({"_id": oid})
DeleteOne(coll, oid) ==
    IF Positions(coll, oid) = {} THEN coll ELSE RemoveAt(coll, FirstPos(coll, oid))

\* deleted_count of that delete_one
DeletedCount(coll, oid) == IF Positions(coll, oid) = {} THEN 0 ELSE 1

\* count_documents({})
CountDocuments(coll) == Len(coll)

\* cursor.limit(n): 0 is no limit, a negative n limits to |n|
CursorLimit(docs, n) == IF n = 0 THEN docs ELSE Take(docs, Abs(n))

(***************************************************************************)
(* Filters.  A filter is a record:                                         *)
(*   [kind |-> "doc", parts]   a filter document, every entry must hold    *)
(*   [kind |-> "and", parts]   {"$and": parts}                             *)
(*   [kind |-> "or", parts]    {"$or": parts}                              *)
(*   [kind |-> "regex", field, pattern]                                    *)
(*                             {field: {"$regex": pattern, "$options": "i"}}*)
(*   [kind |-> "eq", field, value]   {field: value} on an array field      *)
(*   [kind |-> "in", field, values]  {field: {"$in": values}}              *)
(***************************************************************************)
\* a pattern character matches itself (ignoring case) and "." matches any character
CharMatches(pc, c) == pc = "." \/ LowerChar(pc) = LowerChar(c)

\* {"$regex": p, "$options": "i"} on the string s: p matches somewhere in s
RegexSearch(p, s) ==
    \E o \in 0..(Len(s) - Len(p)) : \A i \in 1..Len(p) : CharMatches(p[i], s[o + i])

\* the strings a regex on this field is tried against (None has none)
FieldStrings(doc, field) ==
    IF field = "description" THEN Range(doc[field]) ELSE {doc[field]}

RECURSIVE EvalFilter(_, _)
EvalFilter(f, doc) ==
    CASE f.kind = "doc" -> \A i \in 1..Len(f.parts) : EvalFilter(f.parts[i], doc)
      [] f.kind = "and" -> \A i \in 1..Len(f.parts) : EvalFilter(f.parts[i], doc)
      [] f.kind = "or" -> \E i \in 1..Len(f.parts) : EvalFilter(f.parts[i], doc)
      [] f.kind = "regex" -> \E s \in FieldStrings(doc, f.field) : RegexSearch(f.pattern, s)
      [] f.kind = "eq" -> f.value \in Range(doc[f.field])
      [] f.kind = "in" -> Range(doc[f.field]) \cap Range(f.values) # {}

\* collection.find(filter), in natural order
Find(coll, f) == SelectSeq(coll, LAMBDA d : EvalFilter(f, d))

MatchAll == [kind |-> "doc", parts |-> <<>>]

(***************************************************************************)
(* str.split(",") and str.strip()                                          *)
(***************************************************************************)
RECURSIVE Split(_, _)
Split(s, sep) ==
    IF \A i \in 1..Len(s) : s[i] # sep THEN <<s>>
    ELSE LET k == CHOOSE i \in 1..Len(s) :
                      s[i] = sep /\ \A j \in 1..(i - 1) : s[j] # sep
         IN <<SubSeq(s, 1, k - 1)>> \o Split(SubSeq(s, k + 1, Len(s)), sep)

RECURSIVE LStrip(_)
LStrip(s) == IF s # <<>> /\ IsSpace(s[1]) THEN LStrip(Tail(s)) ELSE s

RECURSIVE RStrip(_)
RStrip(s) ==
    IF s # <<>> /\ IsSpace(s[Len(s)]) THEN RStrip(SubSeq(s, 1, Len(s) - 1)) ELSE s

Strip(s) == RStrip(LStrip(s))

\* [c.strip() for c in categories.split(",") if c.strip()]
ParseCategories(categories) ==
    LET parts == Split(categories, ",")
        stripped == [i \in 1..Len(parts) |-> Strip(parts[i])]
    IN SelectSeq(stripped, LAMBDA c : c # <<>>)

(***************************************************************************)
(* src/backend/database.py: the adapter.  A returned document is <<doc>>,  *)
(* None and {} are <<>>.  create_document and update_document await the    *)
(* store twice and are given call by call.                                 *)
(***************************************************************************)
\* create_document, what it hands to insert_one: data with both timestamps
create_document_data(data, t) == Merge(data, [created_at |-> t, updated_at |-> t])

\* create_document from `await find_one` on: doc with its id as a string, or {}
create_document_find(coll, oid) ==
    LET doc == FindOne(coll, oid)
    IN IF doc # <<>> THEN <<to_str_id(doc[1])>> ELSE <<>>

get_documents(coll, filter_dict, limit) ==
    LET docs == CursorLimit(Find(coll, filter_dict), limit)
    IN [i \in 1..Len(docs) |-> to_str_id(docs[i])]

get_document(coll, doc_id) ==
    IF ~ValidId(doc_id) THEN <<>>
    ELSE LET doc == FindOne(coll, ObjectId(doc_id))
         IN IF doc # <<>> THEN <<to_str_id(doc[1])>> ELSE <<>>

\* update_document, for a doc_id that parses: the data as stamped with the clock
\* reading t
update_document_data(data, t) == Merge(data, [updated_at |-> t])

\* the update_one of update_document with that data: the collection afterwards (the
\* rest is get_document)
update_document_write(coll, doc_id, data) == UpdateOneSet(coll, ObjectId(doc_id), data)

delete_document(coll, doc_id) ==
    IF ~ValidId(doc_id) THEN [coll |-> coll, ret |-> FALSE]
    ELSE [coll |-> DeleteOne(coll, ObjectId(doc_id)),
          ret |-> DeletedCount(coll, ObjectId(doc_id)) = 1]

(***************************************************************************)
(* The filter builders of the two list_products handlers.  An absent or    *)
(* empty query input is <<>> (both are falsy in the code).                 *)
(***************************************************************************)
\* src/main.py list_products: filt
RootFilter(q, category, categories) ==
    LET text == IF q # <<>>
                THEN << [kind |-> "or",
                         parts |-> << [kind |-> "regex", field |-> "name", pattern |-> q],
                                      [kind |-> "regex", field |-> "description", pattern |-> q] >>] >>
                ELSE <<>>
        cats == ParseCategories(categories)
        cat == IF category # <<>>
               THEN << [kind |-> "in", field |-> "categories", values |-> <<category>>] >>
               ELSE IF categories # <<>> /\ cats # <<>>
                    THEN << [kind |-> "in", field |-> "categories", values |-> cats] >>
                    ELSE <<>>
    IN [kind |-> "doc", parts |-> text \o cat]

\* the parts joined by $or where the handler joins them by $and
BackendFilterAny(q, category, categories) ==
    LET p1 == IF q # <<>>
              THEN << [kind |-> "regex", field |-> "name", pattern |-> q] >>
              ELSE <<>>
        p2 == IF category # <<>>
              THEN << [kind |-> "eq", field |-> "categories", value |-> category] >>
              ELSE <<>>
        cats == ParseCategories(categories)
        p3 == IF categories # <<>> /\ cats # <<>>
              THEN << [kind |-> "in", field |-> "categories", values |-> cats] >>
              ELSE <<>>
        filter_parts == p1 \o p2 \o p3
    IN IF filter_parts = <<>> THEN MatchAll
       ELSE IF Len(filter_parts) = 1 THEN filter_parts[1]
       ELSE [kind |-> "or", parts |-> filter_parts]

\* src/backend/main.py list_products: filter_dict
BackendFilter(q, category, categories) ==
    LET p1 == IF q # <<>>
              THEN << [kind |-> "regex", field |-> "name", pattern |-> q] >>
              ELSE <<>>
        p2 == IF category # <<>>
              THEN << [kind |-> "eq", field |-> "categories", value |-> category] >>
              ELSE <<>>
        cats == ParseCategories(categories)
        p3 == IF categories # <<>> /\ cats # <<>>
              THEN << [kind |-> "in", field |-> "categories", values |-> cats] >>
              ELSE <<>>
        filter_parts == p1 \o p2 \o p3
    IN IF filter_parts = <<>> THEN MatchAll
       ELSE IF Len(filter_parts) = 1 THEN filter_parts[1]
       ELSE [kind |-> "and", parts |-> filter_parts]

BuildFilter(v, q, category, categories) ==
    IF v = "root" THEN RootFilter(q, category, categories)
    ELSE BackendFilter(q, category, categories)

\* the orders a sort by created_at descending may return (ties in any order)
SortedByCreatedDesc(docs) ==
    LET n == Len(docs)
        perms == {p \in [1..n -> 1..n] : \A i, j \in 1..n : i # j => p[i] # p[j]}
    IN { [i \in 1..n |-> docs[p[i]]] : p \in
           {p \in perms : \A i \in 1..(n - 1) :
                docs[p[i]].created_at >= docs[p[i + 1]].created_at} }

(***************************************************************************)
(* Floating point.  price and total are Python floats (IEEE 754 binary64). *)
(* A non-negative float is held exactly, as the whole number of            *)
(* 2^-FracBits it equals, written in limbs of LimbBits bits, lowest first  *)
(* (every float from 0.001 to two million is such a whole number).  Each   *)
(* operation computes the exact result and rounds it to Mantissa           *)
(* significant bits, an exact tie to the even neighbour, as the hardware   *)
(* does.                                                                   *)
(***************************************************************************)
Mantissa == 53
LimbBits == 15
FracLimbs == 5
FracBits == FracLimbs * LimbBits

RECURSIVE Pow2(_)
Pow2(k) == IF k = 0 THEN 1 ELSE 2 * Pow2(k - 1)

LimbBase == Pow2(LimbBits)

RECURSIVE Limbs(_)
Limbs(n) == IF n = 0 THEN <<>> ELSE <<n % LimbBase>> \o Limbs(n \div LimbBase)

RECURSIVE ToInt(_)
ToInt(a) == IF a = <<>> THEN 0 ELSE a[1] + LimbBase * ToInt(Tail(a))

RECURSIVE Trim(_)
Trim(a) == IF a # <<>> /\ a[Len(a)] = 0 THEN Trim(SubSeq(a, 1, Len(a) - 1)) ELSE a

LimbAt(a, i) == IF i >= 1 /\ i <= Len(a) THEN a[i] ELSE 0

Rest(a) == IF a = <<>> THEN <<>> ELSE Tail(a)

\* a + b + c
RECURSIVE AddL(_, _, _)
AddL(a, b, c) ==
    IF a = <<>> /\ b = <<>> THEN Limbs(c)
    ELSE LET s == LimbAt(a, 1) + LimbAt(b, 1) + c
         IN <<s % LimbBase>> \o AddL(Rest(a), Rest(b), s \div LimbBase)

\* a - b - c, for a >= b + c
RECURSIVE SubL(_, _, _)
SubL(a, b, c) ==
    IF a = <<>> THEN <<>>
    ELSE LET s == a[1] - LimbAt(b, 1) - c
         IN <<s % LimbBase>> \o SubL(Tail(a), Rest(b), IF s < 0 THEN 1 ELSE 0)

\* a * k + c, for k < LimbBase
RECURSIVE MulL(_, _, _)
MulL(a, k, c) ==
    IF a = <<>> THEN Limbs(c)
    ELSE LET d == a[1] * k + c IN <<d % LimbBase>> \o MulL(Tail(a), k, d \div LimbBase)

\* quotient and remainder of a by k < LimbBase
RECURSIVE DivRemL(_, _)
DivRemL(a, k) ==
    IF a = <<>> THEN [q |-> <<>>, r |-> 0]
    ELSE LET hi == DivRemL(Tail(a), k)
             r2 == hi.r * LimbBase + a[1]
         IN [q |-> <<r2 \div k>> \o hi.q, r |-> r2 % k]

\* a < b, for a and b without leading zero limbs
LessL(a, b) ==
    IF Len(a) # Len(b) THEN Len(a) < Len(b)
    ELSE \E i \in 1..Len(a) : a[i] < b[i] /\ \A j \in (i + 1)..Len(a) : a[j] = b[j]

Width(v) == CHOOSE w \in 0..LimbBits : v < Pow2(w) /\ (w = 0 \/ v >= Pow2(w - 1))

BitLen(a) == IF a = <<>> THEN 0 ELSE LimbBits * (Len(a) - 1) + Width(a[Len(a)])

\* bit i of a, the lowest being bit 1
BitOf(a, i) ==
    IF i < 1 THEN 0
    ELSE (LimbAt(a, (i - 1) \div LimbBits + 1) \div Pow2((i - 1) % LimbBits)) % 2

\* is one of the d lowest bits of a set
LowBits(a, d) ==
    \/ \E j \in 1..(d \div LimbBits) : LimbAt(a, j) # 0
    \/ LimbAt(a, d \div LimbBits + 1) % Pow2(d % LimbBits) # 0

ShiftRight(a, d) ==
    LET w == d \div LimbBits
        s == d % LimbBits
    IN Trim([j \in 1..(Len(a) - w) |->
                a[j + w] \div Pow2(s)
                + (LimbAt(a, j + w + 1) % Pow2(s)) * Pow2(LimbBits - s)])

ShiftLeft(a, d) ==
    LET w == d \div LimbBits
        s == d % LimbBits
    IN Trim([j \in 1..(Len(a) + w + 1) |->
                (LimbAt(a, j - w) % Pow2(LimbBits - s)) * Pow2(s)
                + LimbAt(a, j - w - 1) \div Pow2(LimbBits - s)])

\* the nearest float to the exact value a (sticky: a little more than a)
RoundL(a0, sticky) ==
    LET a == Trim(a0)
        d == BitLen(a) - Mantissa
    IN IF d <= 0 THEN a
       ELSE LET kept == ShiftRight(a, d)
                up == BitOf(a, d) = 1 /\ (sticky \/ LowBits(a, d - 1) \/ kept[1] % 2 = 1)
            IN ShiftLeft(IF up THEN AddL(kept, <<1>>, 0) ELSE kept, d)

\* the float a decimal literal of n thousandths denotes (n >= 0)
FloatOf(n) ==
    LET dr == DivRemL([j \in 1..FracLimbs |-> 0] \o Limbs(n), 1000)
    IN RoundL(dr.q, dr.r # 0)

\* float * int and float + float
FMul(f, q) == RoundL(MulL(f, q, 0), FALSE)

FAdd(f, g) == RoundL(AddL(f, g, 0), FALSE)

\* the whole number of 1/unit-ths nearest to f, an exact tie to the even one
Nearest(f, unit) ==
    LET y == MulL(f, unit, 0)
        k0 == ToInt(SubSeq(y, FracLimbs + 1, Len(y)))
    IN IF BitOf(y, FracBits) = 1 /\ (LowBits(y, FracBits - 1) \/ k0 % 2 = 1)
       THEN k0 + 1 ELSE k0

\* the weight of the last mantissa bit of f, as a power of 2^-FracBits
Ulp(f) == IF BitLen(f) > Mantissa THEN BitLen(f) - Mantissa ELSE 0

\* a float as the store and the replies show it: the nearest number of thousandths
\* and how many floats above (below, if negative) that decimal's own float it lies;
\* 0.30000000000000004 is [dec |-> 300, ulps |-> 1]
AsDecimal(f) ==
    LET t == Nearest(f, 1000)
        g == FloatOf(t)
        n == IF LessL(g, f) THEN ToInt(ShiftRight(SubL(f, g, 0), Ulp(g)))
             ELSE 0 - ToInt(ShiftRight(SubL(g, f, 0), Ulp(f)))
    IN [dec |-> t, ulps |-> n]

\* round(total, 2): the float of the nearest decimal with two places, the nearest
\* being judged on the exact value of total
Round2(f) == FloatOf(MinorUnit * Nearest(f, Major \div MinorUnit))

\* it.price * it.quantity, item by item
LineTotals(items) ==
    [i \in 1..Len(items) |-> FMul(FloatOf(items[i].price), items[i].quantity)]

\* the terms added one after the other, every addition rounded
RECURSIVE PlainSum(_)
PlainSum(xs) ==
    IF xs = <<>> THEN <<>>
    ELSE FAdd(PlainSum(SubSeq(xs, 1, Len(xs) - 1)), xs[Len(xs)])

\* total = 0.0; for it in order.items: total += it.price * it.quantity
ItemsTotal(items) == PlainSum(LineTotals(items))

\* a float with its sign; the floats above are magnitudes
Plus(f) == [neg |-> FALSE, mag |-> f]

Minus(f) == [neg |-> TRUE, mag |-> f]

\* x + y for signed floats
SAdd(x, y) ==
    IF x.neg = y.neg THEN [neg |-> x.neg, mag |-> RoundL(AddL(x.mag, y.mag, 0), FALSE)]
    ELSE IF LessL(x.mag, y.mag)
    THEN [neg |-> y.neg, mag |-> RoundL(SubL(y.mag, x.mag, 0), FALSE)]
    ELSE IF x.mag = y.mag THEN Plus(<<>>)
    ELSE [neg |-> x.neg, mag |-> RoundL(SubL(x.mag, y.mag, 0), FALSE)]

\* the loop of the built-in sum() over floats since CPython 3.12: f_result and the
\* compensation c after the terms xs, the first term being the start of f_result
RECURSIVE SumLoop(_)
SumLoop(xs) ==
    IF Len(xs) = 1 THEN [f |-> xs[1], c |-> Plus(<<>>)]
    ELSE LET s == SumLoop(SubSeq(xs, 1, Len(xs) - 1))
             x == xs[Len(xs)]
             t == FAdd(s.f, x)
             e == IF ~LessL(s.f, x)
                  THEN SAdd(SAdd(Plus(s.f), Minus(t)), Plus(x))
                  ELSE SAdd(SAdd(Plus(x), Minus(t)), Plus(s.f))
         IN [f |-> t, c |-> SAdd(s.c, e)]

\* if (c && isfinite(c)) f_result += c
CompensatedSum(xs) ==
    IF xs = <<>> THEN <<>>
    ELSE LET s == SumLoop(xs)
         IN IF s.c.mag # <<>> THEN SAdd(Plus(s.f), s.c).mag ELSE s.f

\* sum(item.price * item.quantity for item in order.items): what the statement
\* yields depends on the interpreter that runs it, the plain sum up to CPython
\* 3.11 and the compensated one from 3.12 on
BuiltinSum(items) == {PlainSum(LineTotals(items)), CompensatedSum(LineTotals(items))}

(***************************************************************************)
(* Inputs of the handlers                                                  *)
(***************************************************************************)
UpperChar(c) ==
    IF \E i \in 1..Len(LowerChars) : LowerChars[i] = c
    THEN UpperChars[CHOOSE i \in 1..Len(LowerChars) : LowerChars[i] = c]
    ELSE c

\* identifier strings a caller may send: every identifier the store can hand out and
\* one it never does, one of them in upper case, and strings that are no identifier
IdInputs ==
    {StrId(o) : o \in FirstOid..(FirstOid + MaxDocs)}
    \cup {[i \in 1..IdLen |-> UpperChar(StrId(FirstOid)[i])]}
    \cup {[i \in 1..IdLen |-> "z"], Append(StrId(FirstOid), "0")}

\* q: absent, a mixed-case fragment of "Vase", a pattern with a metacharacter ("a.")
QInputs == {<<>>, <<"a","S">>, <<"a",".">>}

CategoryInputs == {<<>>, Kit}

\* categories: absent, blank entries only, "pet,\thome decor", " kit ,\tpet"
CategoriesInputs ==
    {<<>>, <<" ", ",", "\t">>, Pet \o <<",", "\t">> \o HomeDecor,
     <<" ">> \o Kit \o <<" ", ",", "\t">> \o Pet}

\* limit: int = 50
DefaultLimit == 50

LimitInputs == {0 - 1, 0, 1, DefaultLimit}

\* the query inputs of a listing
FilterInputs == [q : QInputs, category : CategoryInputs, categories : CategoriesInputs]

\* backend listings: every filter under the default limit, and every limit with
\* no filter and with a text query
BackendListInputs ==
    {Merge(f, [limit |-> DefaultLimit]) : f \in FilterInputs}
    \cup {[q |-> q, category |-> <<>>, categories |-> <<>>, limit |-> l] :
              q \in {<<>>, <<"a","S">>}, l \in LimitInputs}

(***************************************************************************)
(* The sample catalogs of the two seed routines, entry by entry.           *)
(***************************************************************************)
\* the non-breaking hyphen U+2011, which a string of this language cannot hold
NbHyphen == "U+2011"

\* src/main.py seed_products: products (the routine adds the timestamps)
RootSamples ==
    <<
      [ name |->
          <<"H","a","n","d","c","r","a","f","t","e","d"," ","C","e","r","a","m","i","c"," ",
            "V","a","s","e">>,
        description |->
          <<<<"M","i","n","i","m","a","l","i","s","t"," ","m","a","t","t","e"," ","w","h",
              "i","t","e"," ","v","a","s","e"," ","f","o","r"," ","m","o","d","e","r","n",
              " ","h","o","m","e","s">>>>,
        price |-> 2499 * Major,
        images |-> <<"/images/vase.jpg">>,
        categories |-> <<<<"H","o","m","e"," ","D","e","c","o","r">>>>,
        in_stock |-> TRUE,
        rating |-> 46 ],
      [ name |->
          <<"B","a","m","b","o","o"," ","S","e","r","v","i","n","g"," ","T","r","a","y">>,
        description |->
          <<<<"S","u","s","t","a","i","n","a","b","l","e"," ","t","r","a","y"," ","w","i",
              "t","h"," ","a","n","t","i","-","s","l","i","p"," ","b","a","s","e">>>>,
        price |-> 1899 * Major,
        images |-> <<"/images/tray.jpg">>,
        categories |-> <<<<"K","i","t","c","h","e","n">>>>,
        in_stock |-> TRUE,
        rating |-> 44 ],
      [ name |->
          <<"G","o","l","d","-","T","o","n","e"," ","H","o","o","p"," ","E","a","r","r","i",
            "n","g","s">>,
        description |->
          <<<<"H","y","p","o","a","l","l","e","r","g","e","n","i","c",","," ","e","v","e",
              "r","y","d","a","y"," ","w","e","a","r">>>>,
        price |-> 799 * Major,
        images |-> <<"/images/earrings.jpg">>,
        categories |-> <<<<"A","r","t","i","f","i","c","i","a","l"," ","J","e","w","e","l","r","y">>>>,
        in_stock |-> TRUE,
        rating |-> 45 ],
      [ name |->
          <<"O","r","t","h","o","p","e","d","i","c"," ","P","e","t"," ","B","e","d">>,
        description |->
          <<<<"M","e","m","o","r","y"," ","f","o","a","m"," ","c","o","m","f","o","r","t",
              " ","f","o","r"," ","d","o","g","s"," ","a","n","d"," ","c","a","t","s">>>>,
        price |-> 3299 * Major,
        images |-> <<"/images/petbed.jpg">>,
        categories |-> <<<<"P","e","t"," ","S","u","p","p","l","i","e","s">>>>,
        in_stock |-> TRUE,
        rating |-> 47 ],
      [ name |->
          <<"C","o","p","p","e","r"," ","W","a","t","e","r"," ","B","o","t","t","l","e">>,
        description |->
          <<<<"1","L"," ","h","a","m","m","e","r","e","d"," ","c","o","p","p","e","r",",",
              " ","l","e","a","k","-","p","r","o","o","f">>>>,
        price |-> 1599 * Major,
        images |-> <<"/images/bottle.jpg">>,
        categories |-> <<<<"H","e","a","l","t","h"," ","&"," ","W","e","l","l","n","e","s","s">>>>,
        in_stock |-> TRUE,
        rating |-> 43 ],
      [ name |->
          <<"M","a","g","n","e","t","i","c"," ","C","a","b","l","e"," ","O","r","g","a","n",
            "i","z","e","r">>,
        description |->
          <<<<"K","e","e","p","s"," ","y","o","u","r"," ","d","e","s","k"," ","t","i","d",
              "y">>>>,
        price |-> 499 * Major,
        images |-> <<"/images/cable.jpg">>,
        categories |-> <<<<"E","l","e","c","t","r","o","n","i","c","s">>>>,
        in_stock |-> TRUE,
        rating |-> 42 ],
      [ name |->
          <<"A","r","o","m","a","t","i","c"," ","S","o","y"," ","C","a","n","d","l","e">>,
        description |->
          <<<<"L","o","n","g","-","l","a","s","t","i","n","g"," ","s","a","n","d","a","l",
              "w","o","o","d"," ","f","r","a","g","r","a","n","c","e">>>>,
        price |-> 699 * Major,
        images |-> <<"/images/candle.jpg">>,
        categories |-> <<<<"H","o","m","e"," ","D","e","c","o","r">>>>,
        in_stock |-> TRUE,
        rating |-> 41 ],
      [ name |->
          <<"C","a","s","t"," ","I","r","o","n"," ","S","k","i","l","l","e","t"," ","1","0",
            "\"">>,
        description |->
          <<<<"P","r","e","-","s","e","a","s","o","n","e","d",","," ","e","v","e","n"," ",
              "h","e","a","t","i","n","g">>>>,
        price |-> 2299 * Major,
        images |-> <<"/images/skillet.jpg">>,
        categories |-> <<<<"K","i","t","c","h","e","n">>>>,
        in_stock |-> TRUE,
        rating |-> 45 ],
      [ name |->
          <<"S","t","a","t","e","m","e","n","t"," ","N","e","c","k","l","a","c","e">>,
        description |->
          <<<<"A","n","t","i","q","u","e"," ","f","i","n","i","s","h",","," ","l","i","g",
              "h","t","w","e","i","g","h","t">>>>,
        price |-> 1299 * Major,
        images |-> <<"/images/necklace.jpg">>,
        categories |-> <<<<"A","r","t","i","f","i","c","i","a","l"," ","J","e","w","e","l","r","y">>>>,
        in_stock |-> TRUE,
        rating |-> 46 ],
      [ name |->
          <<"I","n","t","e","r","a","c","t","i","v","e"," ","C","a","t"," ","T","e","a","s",
            "e","r">>,
        description |->
          <<<<"F","e","a","t","h","e","r"," ","w","a","n","d"," ","f","o","r"," ","a","c",
              "t","i","v","e"," ","p","l","a","y">>>>,
        price |-> 399 * Major,
        images |-> <<"/images/teaser.jpg">>,
        categories |-> <<<<"P","e","t"," ","S","u","p","p","l","i","e","s">>>>,
        in_stock |-> TRUE,
        rating |-> 40 ],
      [ name |->
          <<"C","o","p","p","e","r"," ","T","o","n","g","u","e"," ","C","l","e","a","n","e",
            "r">>,
        description |->
          <<<<"A","y","u","r","v","e","d","i","c"," ","d","a","i","l","y"," ","h","y","g",
              "i","e","n","e">>>>,
        price |-> 249 * Major,
        images |-> <<"/images/tongue.jpg">>,
        categories |-> <<<<"H","e","a","l","t","h"," ","&"," ","W","e","l","l","n","e","s","s">>>>,
        in_stock |-> TRUE,
        rating |-> 43 ],
      [ name |->
          <<"U","S","B","-","C"," ","F","a","s","t"," ","C","h","a","r","g","e","r">>,
        description |->
          <<<<"2","5","W"," ","c","o","m","p","a","c","t"," ","a","d","a","p","t","e","r">>>>,
        price |-> 1499 * Major,
        images |-> <<"/images/charger.jpg">>,
        categories |-> <<<<"E","l","e","c","t","r","o","n","i","c","s">>>>,
        in_stock |-> TRUE,
        rating |-> 44 ]
    >>

\* src/backend/main.py seed_products: samples
BackendSamples ==
    <<
      [ name |->
          <<"H","a","n","d","w","o","v","e","n"," ","C","o","t","t","o","n"," ","T","h","r",
            "o","w">>,
        description |->
          <<<<"S","o","f","t",","," ","b","r","e","a","t","h","a","b","l","e"," ","t","h",
              "r","o","w"," ","w","i","t","h"," ","s","u","b","t","l","e"," ","t","e","x",
              "t","u","r","e"," ","f","o","r"," ","m","o","d","e","r","n"," ","l","i","v",
              "i","n","g"," ","r","o","o","m","s",".">>>>,
        price |-> 49 * Major,
        images |-> <<"https://images.unsplash.com/photo-1505693416388-ac5ce068fe85?q=80&w=1200&auto=format&fit=crop">>,
        categories |-> <<<<"h","o","m","e"," ","d","e","c","o","r">>>>,
        in_stock |-> TRUE,
        rating |-> 46 ],
      [ name |->
          <<"M","i","n","i","m","a","l","i","s","t"," ","C","e","r","a","m","i","c"," ","V",
            "a","s","e">>,
        description |->
          <<<<"M","a","t","t","e"," ","s","t","o","n","e","w","a","r","e"," ","v","a","s",
              "e"," ","f","o","r"," ","f","r","e","s","h"," ","o","r"," ","d","r","i","e",
              "d"," ","f","l","o","r","a","l"," ","a","r","r","a","n","g","e","m","e","n",
              "t","s",".">>>>,
        price |-> 39 * Major,
        images |-> <<"https://images.unsplash.com/photo-1549187774-b4e9b0445b41?q=80&w=1200&auto=format&fit=crop">>,
        categories |-> <<<<"h","o","m","e"," ","d","e","c","o","r">>>>,
        in_stock |-> TRUE,
        rating |-> 44 ],
      [ name |->
          <<"A","c","a","c","i","a"," ","W","o","o","d"," ","C","u","t","t","i","n","g"," ",
            "B","o","a","r","d">>,
        description |->
          <<<<"D","u","r","a","b","l","e",","," ","k","n","i","f","e","-","f","r","i","e",
              "n","d","l","y"," ","b","o","a","r","d"," ","w","i","t","h"," ","j","u","i",
              "c","e"," ","g","r","o","o","v","e",".">>>>,
        price |-> 29 * Major,
        images |-> <<"https://images.unsplash.com/photo-1515548212307-6f2b1e3c0f51?q=80&w=1200&auto=format&fit=crop">>,
        categories |-> <<<<"k","i","t","c","h","e","n">>>>,
        in_stock |-> TRUE,
        rating |-> 47 ],
      [ name |->
          <<"D","o","u","b","l","e",NbHyphen,"W","a","l","l"," ","G","l","a","s","s"," ",
            "M","u","g"," ","(","2","p","c",")">>,
        description |->
          <<<<"I","n","s","u","l","a","t","e","d"," ","b","o","r","o","s","i","l","i","c",
              "a","t","e"," ","m","u","g","s"," ","f","o","r"," ","c","o","f","f","e","e",
              " ","a","n","d"," ","t","e","a",".">>>>,
        price |-> 24 * Major,
        images |-> <<"https://images.unsplash.com/photo-1497636577773-f1231844b336?q=80&w=1200&auto=format&fit=crop">>,
        categories |-> <<<<"k","i","t","c","h","e","n">>>>,
        in_stock |-> TRUE,
        rating |-> 45 ],
      [ name |->
          <<"G","o","l","d",NbHyphen,"T","o","n","e"," ","H","u","g","g","i","e"," ","H",
            "o","o","p","s">>,
        description |->
          <<<<"H","y","p","o","a","l","l","e","r","g","e","n","i","c"," ","s","t","a","i",
              "n","l","e","s","s"," ","s","t","e","e","l"," ","w","i","t","h"," ","1","8",
              "k"," ","g","o","l","d"," ","t","o","n","e"," ","f","i","n","i","s","h",".">>>>,
        price |-> 19 * Major,
        images |-> <<"https://images.unsplash.com/photo-1490114538077-0a7f8cb49891?q=80&w=1200&auto=format&fit=crop">>,
        categories |-> <<<<"a","r","t","i","f","i","c","i","a","l"," ","j","e","w","e","l","r","y">>>>,
        in_stock |-> TRUE,
        rating |-> 43 ],
      [ name |->
          <<"P","e","a","r","l"," ","D","r","o","p"," ","N","e","c","k","l","a","c","e">>,
        description |->
          <<<<"E","l","e","g","a","n","t"," ","f","r","e","s","h","w","a","t","e","r",
              NbHyphen,"s","t","y","l","e"," ","p","e","n","d","a","n","t"," ","o","n"," ",
              "a"," ","f","i","n","e"," ","c","h","a","i","n",".">>>>,
        price |-> 22 * Major,
        images |-> <<"https://images.unsplash.com/photo-1603565816278-c5c9a0a1f9de?q=80&w=1200&auto=format&fit=crop">>,
        categories |-> <<<<"a","r","t","i","f","i","c","i","a","l"," ","j","e","w","e","l","r","y">>>>,
        in_stock |-> TRUE,
        rating |-> 42 ],
      [ name |->
          <<"M","e","m","o","r","y"," ","F","o","a","m"," ","P","e","t"," ","B","e","d">>,
        description |->
          <<<<"W","a","s","h","a","b","l","e"," ","c","o","v","e","r",","," ","n","o","n",
              NbHyphen,"s","l","i","p"," ","b","a","s","e",","," ","s","u","p","p","o","r",
              "t","i","v","e"," ","f","o","a","m",".">>>>,
        price |-> 59 * Major,
        images |-> <<"https://images.unsplash.com/photo-1558944351-cf21b4f99f05?q=80&w=1200&auto=format&fit=crop">>,
        categories |-> <<<<"p","e","t"," ","s","u","p","p","l","i","e","s">>>>,
        in_stock |-> TRUE,
        rating |-> 46 ],
      [ name |->
          <<"S","i","l","i","c","o","n","e"," ","S","l","o","w"," ","F","e","e","d","e","r",
            " ","B","o","w","l">>,
        description |->
          <<<<"P","r","o","m","o","t","e","s"," ","h","e","a","l","t","h","i","e","r"," ",
              "e","a","t","i","n","g"," ","p","a","c","e"," ","f","o","r"," ","d","o","g",
              "s"," ","a","n","d"," ","c","a","t","s",".">>>>,
        price |-> 18 * Major,
        images |-> <<"https://images.unsplash.com/photo-1548199973-03cce0bbc87b?q=80&w=1200&auto=format&fit=crop">>,
        categories |-> <<<<"p","e","t"," ","s","u","p","p","l","i","e","s">>>>,
        in_stock |-> TRUE,
        rating |-> 44 ],
      [ name |->
          <<"S","t","a","i","n","l","e","s","s"," ","S","t","e","e","l"," ","W","a","t","e",
            "r"," ","B","o","t","t","l","e"," ","(","7","5","0","m","l",")">>,
        description |->
          <<<<"V","a","c","u","u","m"," ","i","n","s","u","l","a","t","e","d",","," ","k",
              "e","e","p","s"," ","d","r","i","n","k","s"," ","c","o","l","d"," ","2","4",
              "h"," ","o","r"," ","h","o","t"," ","1","2","h",".">>>>,
        price |-> 27 * Major,
        images |-> <<"https://images.unsplash.com/photo-1592167940413-8d743a6c0f36?q=80&w=1200&auto=format&fit=crop">>,
        categories |-> <<<<"h","e","a","l","t","h"," ","a","n","d"," ","w","e","l","l","n","e","s","s">>>>,
        in_stock |-> TRUE,
        rating |-> 48 ],
      [ name |->
          <<"C","o","r","k"," ","Y","o","g","a"," ","B","l","o","c","k"," ","(","2","p","c",
            ")">>,
        description |->
          <<<<"H","i","g","h",NbHyphen,"d","e","n","s","i","t","y"," ","n","a","t","u","r",
              "a","l"," ","c","o","r","k"," ","f","o","r"," ","s","t","a","b","i","l","i",
              "t","y"," ","a","n","d"," ","g","r","i","p",".">>>>,
        price |-> 23 * Major,
        images |-> <<"https://images.unsplash.com/photo-1588286840104-8957b019727f?q=80&w=1200&auto=format&fit=crop">>,
        categories |-> <<<<"h","e","a","l","t","h"," ","a","n","d"," ","w","e","l","l","n","e","s","s">>>>,
        in_stock |-> TRUE,
        rating |-> 45 ],
      [ name |->
          <<"W","i","r","e","l","e","s","s"," ","C","h","a","r","g","i","n","g"," ","P","a",
            "d">>,
        description |->
          <<<<"Q","i",NbHyphen,"c","o","m","p","a","t","i","b","l","e",","," ","s","l","i",
              "m"," ","p","r","o","f","i","l","e"," ","w","i","t","h"," ","s","o","f","t",
              NbHyphen,"t","o","u","c","h"," ","f","i","n","i","s","h",".">>>>,
        price |-> 28 * Major,
        images |-> <<"https://images.unsplash.com/photo-1517336714731-489689fd1ca8?q=80&w=1200&auto=format&fit=crop">>,
        categories |-> <<<<"e","l","e","c","t","r","o","n","i","c","s">>>>,
        in_stock |-> TRUE,
        rating |-> 44 ],
      [ name |->
          <<"N","o","i","s","e",NbHyphen,"I","s","o","l","a","t","i","n","g"," ","E","a",
            "r","b","u","d","s">>,
        description |->
          <<<<"C","o","m","f","o","r","t","a","b","l","e"," ","f","i","t",","," ","b","a",
              "l","a","n","c","e","d"," ","s","o","u","n","d",","," ","i","n","l","i","n",
              "e"," ","m","i","c",".">>>>,
        price |-> 34 * Major,
        images |-> <<"https://images.unsplash.com/photo-1518443881240-4e00f9b11669?q=80&w=1200&auto=format&fit=crop">>,
        categories |-> <<<<"e","l","e","c","t","r","o","n","i","c","s">>>>,
        in_stock |-> TRUE,
        rating |-> 43 ]
    >>

\* identifiers handed out so far
Issued == nextOid - FirstOid

\* the reply of a handler: HTTP status, error detail, returned documents (a null or
\* empty body is <<>>)
Reply(op, args, status, detail, ret) ==
    [op |-> op, args |-> args, status |-> status, detail |-> detail, ret |-> ret]

NotConfigured(op, args) == Reply(op, args, 500, "Database not configured", <<>>)

\* a startup routine returned
Started == Reply("seed_products", [none |-> TRUE], 0, "", <<>>)

\* no reply is waiting to be sent
NoReply == Reply("none", [none |-> TRUE], 0, "", <<>>)

(***************************************************************************)
(* Handlers under way.  inflight[p] is Idle, or the local variables that   *)
(* the handler run by p holds; `at` is the call it makes next:             *)
(*   create_product, create_order                                          *)
(*       at now : create_order of src/main.py between its two readings of  *)
(*           the clock; args, data (the document so far, with created_at)  *)
(*       at insert_one : args, data (the document, stamped with the clock  *)
(*           readings the handler has taken)                               *)
(*       at find_one : args, data (with the _id the driver added), oid     *)
(*           (inserted_id)                                                 *)
(*   update_product                                                        *)
(*       at update_one : args, oid, data (the fields to set, updated_at    *)
(*           among them as read from the clock)                            *)
(*       at find_one : args, oid, matched (did update_one match; the       *)
(*           adapter of the backend drops that result)                     *)
(*   seed_products : the routine after its emptiness read (count_documents *)
(*       in src/main.py, get_documents in src/backend/main.py)             *)
(*   insert_many : the same routine with its clock reading t, before the   *)
(*       write of document k of insert_many; oid is the first identifier   *)
(*       of the batch once the driver has drawn it                         *)
(*   seed_clock, seed_insert, seed_find : the loop of the backend          *)
(*       seed_products at sample k, before the clock reading of its        *)
(*       create_document, before insert_one (with that reading t) and      *)
(*       before find_one                                                   *)
(* The clock is read in the step before the write: a handler can be        *)
(* overtaken between its reading of the clock and its call to the store.   *)
(* A routine that is writing its catalog also carries hot and yields,      *)
(* which count the points at which other processes ran in between.         *)
(***************************************************************************)
Processes == 1..Workers

Idle == [pc |-> "idle"]

\* the reply before has been sent
Quiet == last = NoReply

\* a request or startup that arrives is run in the lowest slot that is free
Free(p) == inflight[p] = Idle /\ \A q \in 1..(p - 1) : inflight[q] # Idle

\* a request served in one step needs a slot for that step
Room == \E p \in Processes : inflight[p] = Idle

\* creates under way that have not drawn their identifier yet
Pending ==
    Cardinality({p \in Processes :
                    inflight[p].pc \in {"create_product", "create_order"}
                        /\ inflight[p].at # "find_one"})

\* r is a run of a seed routine that is writing its catalog
Looping(r) == r.pc \in {"insert_many", "seed_clock", "seed_insert", "seed_find"}

\* p may take a step: no seed routine that the step would come in between has used
\* up its yields (p = 0 for a request served in one step)
MayRun(p) ==
    \A q \in Processes \ {p} :
        (Looping(inflight[q]) /\ inflight[q].hot) => inflight[q].yields < MaxYields

\* a seed routine after a step of another process: hot is TRUE while nothing has run
\* since the routine's own last step
Overtaken(r) ==
    IF Looping(r) /\ r.hot THEN [r EXCEPT !.hot = FALSE, !.yields = @ + 1] ELSE r

\* inflight after a step of p that leaves p with r
Others(p, r) == [q \in Processes |-> IF q = p THEN r ELSE Overtaken(inflight[q])]

(***************************************************************************)
(* Initial state: empty collections; src/backend/database.py always builds *)
(* a client, the database module of src/main.py may leave db as None.      *)
(***************************************************************************)
DbStates(v) == IF v = "root" THEN BOOLEAN ELSE {TRUE}

Init ==
    /\ variant \in {"root", "backend"}
    /\ dbOk \in DbStates(variant)
    /\ product = <<>>
    /\ order = <<>>
    /\ nextOid = FirstOid
    /\ now = 0
    /\ last = NoReply
    /\ inflight = [p \in Processes |-> Idle]

\* time passes
Tick ==
    /\ Quiet
    /\ now < MaxClock
    /\ now' = now + 1
    /\ UNCHANGED <<inflight, variant, dbOk, product, order, nextOid, last>>

\* the framework sends the reply
SendReply ==
    /\ last # NoReply
    /\ last' = NoReply
    /\ UNCHANGED <<inflight, variant, dbOk, product, order, nextOid, now>>

(***************************************************************************)
(* src/main.py handlers                                                    *)
(***************************************************************************)
RootListProducts(q, category, categories) ==
    LET args == [q |-> q, category |-> category, categories |-> categories] IN
    /\ variant = "root" /\ Quiet /\ Room /\ MayRun(0)
    /\ IF ~dbOk
       THEN last' = NotConfigured("list_products", args)
       ELSE \E docs \in SortedByCreatedDesc(Find(product, RootFilter(q, category, categories))) :
               last' = Reply("list_products", args, 200, "",
                             [i \in 1..Len(docs) |-> to_str_id(docs[i])])
    /\ inflight' = Others(0, Idle)
    /\ UNCHANGED <<variant, dbOk, product, order, nextOid, now>>

\* create_product up to the reading of the clock
RootCreateProductStart(p, body) ==
    LET args == [body |-> body]
        data == Merge(ProductDump("root", body), [created_at |-> now, updated_at |-> now])
    IN
    /\ variant = "root" /\ Quiet /\ Free(p) /\ MayRun(p)
    /\ IF ~dbOk
       THEN /\ last' = NotConfigured("create_product", args)
            /\ inflight' = Others(p, Idle)
       ELSE /\ Issued + Pending < MaxDocs
            /\ inflight' = Others(p, [pc |-> "create_product", at |-> "insert_one",
                                      args |-> args, data |-> data])
            /\ UNCHANGED last
    /\ UNCHANGED <<variant, dbOk, product, order, nextOid, now>>

\* the insert_one of create_product
RootCreateProductInsert(p) ==
    LET r == inflight[p]
        data == Merge(r.data, [_id |-> nextOid])
    IN
    /\ variant = "root" /\ Quiet /\ MayRun(p)
    /\ r.pc = "create_product" /\ r.at = "insert_one"
    /\ product' = InsertOne(product, data, nextOid)
    /\ nextOid' = nextOid + 1
    /\ inflight' = Others(p, [pc |-> "create_product", at |-> "find_one",
                              args |-> r.args, data |-> data, oid |-> nextOid])
    /\ UNCHANGED <<variant, dbOk, order, now, last>>

\* create_product from find_one to the reply
RootCreateProductFind(p) ==
    LET created == FindOne(product, inflight[p].oid) IN
    /\ variant = "root" /\ Quiet /\ MayRun(p)
    /\ inflight[p].pc = "create_product" /\ inflight[p].at = "find_one"
    /\ last' = Reply("create_product", inflight[p].args, 201, "",
                     IF created = <<>> THEN <<>> ELSE <<to_str_id(created[1])>>)
    /\ inflight' = Others(p, Idle)
    /\ UNCHANGED <<variant, dbOk, product, order, nextOid, now>>

\* get_product with the identifier parsed before the connection is looked at
RootGetProductParseFirst(product_id) ==
    LET args == [id |-> product_id] IN
    /\ variant = "root" /\ Quiet /\ Room /\ MayRun(0)
    /\ last' = IF ~ValidId(product_id)
               THEN Reply("get_product", args, 400, "Invalid product id", <<>>)
               ELSE IF ~dbOk THEN NotConfigured("get_product", args)
               ELSE LET doc == FindOne(product, ObjectId(product_id))
                    IN IF doc = <<>>
                       THEN Reply("get_product", args, 404, "Product not found", <<>>)
                       ELSE Reply("get_product", args, 200, "", <<to_str_id(doc[1])>>)
    /\ inflight' = Others(0, Idle)
    /\ UNCHANGED <<variant, dbOk, product, order, nextOid, now>>

RootGetProduct(product_id) ==
    LET args == [id |-> product_id] IN
    /\ variant = "root" /\ Quiet /\ Room /\ MayRun(0)
    /\ last' = IF ~dbOk THEN NotConfigured("get_product", args)
               ELSE IF ~ValidId(product_id)
               THEN Reply("get_product", args, 400, "Invalid product id", <<>>)
               ELSE LET doc == FindOne(product, ObjectId(product_id))
                    IN IF doc = <<>>
                       THEN Reply("get_product", args, 404, "Product not found", <<>>)
                       ELSE Reply("get_product", args, 200, "", <<to_str_id(doc[1])>>)
    /\ inflight' = Others(0, Idle)
    /\ UNCHANGED <<variant, dbOk, product, order, nextOid, now>>

\* update_product up to the reading of the clock
RootUpdateProductStart(p, product_id, body) ==
    LET args == [id |-> product_id, body |-> body]
        data == Merge(ProductDump("root", body), [updated_at |-> now])
    IN
    /\ variant = "root" /\ Quiet /\ Free(p) /\ MayRun(p)
    /\ IF ~dbOk
       THEN /\ last' = NotConfigured("update_product", args)
            /\ inflight' = Others(p, Idle)
       ELSE IF ~ValidId(product_id)
       THEN /\ last' = Reply("update_product", args, 400, "Invalid product id", <<>>)
            /\ inflight' = Others(p, Idle)
       ELSE /\ inflight' = Others(p, [pc |-> "update_product", at |-> "update_one",
                                      args |-> args, oid |-> ObjectId(product_id),
                                      data |-> data])
            /\ UNCHANGED last
    /\ UNCHANGED <<variant, dbOk, product, order, nextOid, now>>

\* the update_one of update_product and the test of matched_count
RootUpdateProductWrite(p) ==
    LET r == inflight[p] IN
    /\ variant = "root" /\ Quiet /\ MayRun(p)
    /\ r.pc = "update_product" /\ r.at = "update_one"
    /\ product' = UpdateOneSet(product, r.oid, r.data)
    /\ IF MatchedCount(product, r.oid) = 0
       THEN /\ last' = Reply("update_product", r.args, 404, "Product not found", <<>>)
            /\ inflight' = Others(p, Idle)
       ELSE /\ inflight' = Others(p, [pc |-> "update_product", at |-> "find_one",
                                      args |-> r.args, oid |-> r.oid, matched |-> TRUE])
            /\ UNCHANGED last
    /\ UNCHANGED <<variant, dbOk, order, nextOid, now>>

\* update_product from find_one to the reply
RootUpdateProductFind(p) ==
    LET doc == FindOne(product, inflight[p].oid) IN
    /\ variant = "root" /\ Quiet /\ MayRun(p)
    /\ inflight[p].pc = "update_product" /\ inflight[p].at = "find_one"
    /\ last' = Reply("update_product", inflight[p].args, 200, "",
                     IF doc = <<>> THEN <<>> ELSE <<to_str_id(doc[1])>>)
    /\ inflight' = Others(p, Idle)
    /\ UNCHANGED <<variant, dbOk, product, order, nextOid, now>>

RootDeleteProduct(product_id) ==
    LET args == [id |-> product_id] IN
    /\ variant = "root" /\ Quiet /\ Room /\ MayRun(0)
    /\ IF ~dbOk
       THEN last' = NotConfigured("delete_product", args) /\ UNCHANGED product
       ELSE IF ~ValidId(product_id)
       THEN /\ last' = Reply("delete_product", args, 400, "Invalid product id", <<>>)
            /\ UNCHANGED product
       ELSE LET oid == ObjectId(product_id)
            IN /\ product' = DeleteOne(product, oid)
               /\ last' = IF DeletedCount(product, oid) = 0
                          THEN Reply("delete_product", args, 404, "Product not found", <<>>)
                          ELSE Reply("delete_product", args, 204, "", <<>>)
    /\ inflight' = Others(0, Idle)
    /\ UNCHANGED <<variant, dbOk, order, nextOid, now>>

\* create_order up to the first reading of the clock, which is created_at
RootCreateOrderStart(p, body) ==
    LET args == [body |-> body]
        o == OrderParse("root", body)
        data == [items |-> o.items,
                 customer_name |-> o.customer_name,
                 customer_email |-> o.customer_email,
                 address |-> o.address,
                 status |-> "pending",
                 total |-> AsDecimal(Round2(ItemsTotal(o.items))),
                 created_at |-> now]
    IN
    /\ variant = "root" /\ Quiet /\ Free(p) /\ MayRun(p)
    /\ IF ~dbOk
       THEN /\ last' = NotConfigured("create_order", args)
            /\ inflight' = Others(p, Idle)
       ELSE /\ Issued + Pending < MaxDocs
            /\ inflight' = Others(p, [pc |-> "create_order", at |-> "now",
                                      args |-> args, data |-> data])
            /\ UNCHANGED last
    /\ UNCHANGED <<variant, dbOk, product, order, nextOid, now>>

\* the second reading of the clock, which is updated_at
RootCreateOrderClock(p) ==
    LET r == inflight[p] IN
    /\ variant = "root" /\ Quiet /\ MayRun(p)
    /\ r.pc = "create_order" /\ r.at = "now"
    /\ inflight' = Others(p, [pc |-> "create_order", at |-> "insert_one", args |-> r.args,
                              data |-> Merge(r.data, [updated_at |-> now])])
    /\ UNCHANGED <<variant, dbOk, product, order, nextOid, now, last>>

\* the insert_one of create_order
RootCreateOrderInsert(p) ==
    LET r == inflight[p]
        data == Merge(r.data, [_id |-> nextOid])
    IN
    /\ variant = "root" /\ Quiet /\ MayRun(p)
    /\ r.pc = "create_order" /\ r.at = "insert_one"
    /\ order' = InsertOne(order, data, nextOid)
    /\ nextOid' = nextOid + 1
    /\ inflight' = Others(p, [pc |-> "create_order", at |-> "find_one",
                              args |-> r.args, data |-> data, oid |-> nextOid])
    /\ UNCHANGED <<variant, dbOk, product, now, last>>

\* create_order from find_one to the reply
RootCreateOrderFind(p) ==
    LET created == FindOne(order, inflight[p].oid) IN
    /\ variant = "root" /\ Quiet /\ MayRun(p)
    /\ inflight[p].pc = "create_order" /\ inflight[p].at = "find_one"
    /\ last' = Reply("create_order", inflight[p].args, 201, "",
                     IF created = <<>> THEN <<>> ELSE <<to_str_id(created[1])>>)
    /\ inflight' = Others(p, Idle)
    /\ UNCHANGED <<variant, dbOk, product, order, nextOid, now>>

\* startup, up to count_documents
RootSeedCount(p) ==
    /\ variant = "root" /\ Quiet /\ Free(p) /\ MayRun(p)
    /\ IF ~dbOk \/ CountDocuments(product) > 0
       THEN /\ last' = Started
            /\ inflight' = Others(p, Idle)
       ELSE /\ inflight' = Others(p, [pc |-> "seed_products"])
            /\ UNCHANGED last
    /\ UNCHANGED <<variant, dbOk, product, order, nextOid, now>>

\* startup, the reading of the clock that stamps the whole catalog
RootSeedClock(p) ==
    /\ variant = "root" /\ Quiet /\ MayRun(p)
    /\ inflight[p].pc = "seed_products"
    /\ inflight' = Others(p, [pc |-> "insert_many", k |-> 1, oid |-> 0, t |-> now,
                              hot |-> TRUE, yields |-> 0])
    /\ UNCHANGED <<variant, dbOk, product, order, nextOid, now, last>>

\* startup, the first write of insert_many: the driver gives every document of the
\* catalog its _id, the store writes the documents one after the other
RootSeedInsert(p) ==
    LET r == inflight[p] IN
    /\ variant = "root" /\ Quiet /\ MayRun(p)
    /\ r.pc = "insert_many" /\ r.k = 1
    /\ product' = InsertOne(product,
                            Merge(RootSamples[1], [created_at |-> r.t, updated_at |-> r.t]),
                            nextOid)
    /\ nextOid' = nextOid + Len(RootSamples)
    /\ inflight' = Others(p, [r EXCEPT !.k = 2, !.oid = nextOid, !.hot = TRUE])
    /\ UNCHANGED <<variant, dbOk, order, now, last>>

\* insert_many, the write of the next document, and the return after the last
RootSeedInsertNext(p) ==
    LET r == inflight[p] IN
    /\ variant = "root" /\ Quiet /\ MayRun(p)
    /\ r.pc = "insert_many" /\ r.k > 1
    /\ product' = InsertOne(product,
                            Merge(RootSamples[r.k], [created_at |-> r.t, updated_at |-> r.t]),
                            r.oid + r.k - 1)
    /\ IF r.k = Len(RootSamples)
       THEN /\ last' = Started
            /\ inflight' = Others(p, Idle)
       ELSE /\ inflight' = Others(p, [r EXCEPT !.k = @ + 1, !.hot = TRUE])
            /\ UNCHANGED last
    /\ UNCHANGED <<variant, dbOk, order, nextOid, now>>

(***************************************************************************)
(* src/backend/main.py handlers                                            *)
(***************************************************************************)
\* create_product up to the `await insert_one` of create_document, which has read
\* the clock
BackendCreateProductStart(p, body) ==
    LET args == [body |-> body]
        data == create_document_data(ProductDump("backend", body), now)
    IN
    /\ variant = "backend" /\ Quiet /\ Free(p) /\ MayRun(p)
    /\ Issued + Pending < MaxDocs
    /\ inflight' = Others(p, [pc |-> "create_product", at |-> "insert_one",
                              args |-> args, data |-> data])
    /\ UNCHANGED <<variant, dbOk, product, order, nextOid, now, last>>

\* the insert_one of that create_document
BackendCreateProductInsert(p) ==
    LET r == inflight[p]
        data == Merge(r.data, [_id |-> nextOid])
    IN
    /\ variant = "backend" /\ Quiet /\ MayRun(p)
    /\ r.pc = "create_product" /\ r.at = "insert_one"
    /\ product' = InsertOne(product, data, nextOid)
    /\ nextOid' = nextOid + 1
    /\ inflight' = Others(p, [pc |-> "create_product", at |-> "find_one",
                              args |-> r.args, data |-> data, oid |-> nextOid])
    /\ UNCHANGED <<variant, dbOk, order, now, last>>

\* create_product from the find_one of create_document to the reply
BackendCreateProductFind(p) ==
    LET doc == create_document_find(product, inflight[p].oid) IN
    /\ variant = "backend" /\ Quiet /\ MayRun(p)
    /\ inflight[p].pc = "create_product" /\ inflight[p].at = "find_one"
    /\ last' = IF doc = <<>>
               THEN Reply("create_product", inflight[p].args, 500,
                          "Failed to create product", <<>>)
               ELSE Reply("create_product", inflight[p].args, 200, "", <<Product(doc[1])>>)
    /\ inflight' = Others(p, Idle)
    /\ UNCHANGED <<variant, dbOk, product, order, nextOid, now>>

BackendListProducts(q, category, categories, limit) ==
    LET args == [q |-> q, category |-> category, categories |-> categories, limit |-> limit]
        docs == get_documents(product, BackendFilter(q, category, categories), limit)
    IN
    /\ variant = "backend" /\ Quiet /\ Room /\ MayRun(0)
    /\ last' = Reply("list_products", args, 200, "",
                     [i \in 1..Len(docs) |-> Product(docs[i])])
    /\ inflight' = Others(0, Idle)
    /\ UNCHANGED <<variant, dbOk, product, order, nextOid, now>>

BackendGetProduct(product_id) ==
    LET args == [id |-> product_id]
        doc == get_document(product, product_id)
    IN
    /\ variant = "backend" /\ Quiet /\ Room /\ MayRun(0)
    /\ last' = IF doc = <<>>
               THEN Reply("get_product", args, 404, "Product not found", <<>>)
               ELSE Reply("get_product", args, 200, "", <<Product(doc[1])>>)
    /\ inflight' = Others(0, Idle)
    /\ UNCHANGED <<variant, dbOk, product, order, nextOid, now>>

\* update_product up to the `await update_one` of update_document, which has parsed
\* the identifier and read the clock
BackendUpdateProductStart(p, product_id, body) ==
    LET args == [id |-> product_id, body |-> body]
        data == update_document_data(ProductDump("backend", body), now)
    IN
    /\ variant = "backend" /\ Quiet /\ Free(p) /\ MayRun(p)
    /\ IF ~ValidId(product_id)
       THEN /\ last' = Reply("update_product", args, 404, "Product not found", <<>>)
            /\ inflight' = Others(p, Idle)
       ELSE /\ inflight' = Others(p, [pc |-> "update_product", at |-> "update_one",
                                      args |-> args, oid |-> ObjectId(product_id),
                                      data |-> data])
            /\ UNCHANGED last
    /\ UNCHANGED <<variant, dbOk, product, order, nextOid, now>>

\* the update_one of that update_document
BackendUpdateProductWrite(p) ==
    LET r == inflight[p] IN
    /\ variant = "backend" /\ Quiet /\ MayRun(p)
    /\ r.pc = "update_product" /\ r.at = "update_one"
    /\ product' = update_document_write(product, r.args.id, r.data)
    /\ inflight' = Others(p, [pc |-> "update_product", at |-> "find_one",
                              args |-> r.args, oid |-> r.oid,
                              matched |-> MatchedCount(product, r.oid) = 1])
    /\ UNCHANGED <<variant, dbOk, order, nextOid, now, last>>

\* update_product from the get_document of update_document to the reply
BackendUpdateProductFind(p) ==
    LET doc == get_document(product, inflight[p].args.id) IN
    /\ variant = "backend" /\ Quiet /\ MayRun(p)
    /\ inflight[p].pc = "update_product" /\ inflight[p].at = "find_one"
    /\ last' = IF doc = <<>>
               THEN Reply("update_product", inflight[p].args, 404, "Product not found", <<>>)
               ELSE Reply("update_product", inflight[p].args, 200, "", <<Product(doc[1])>>)
    /\ inflight' = Others(p, Idle)
    /\ UNCHANGED <<variant, dbOk, product, order, nextOid, now>>

BackendDeleteProduct(product_id) ==
    LET args == [id |-> product_id]
        r == delete_document(product, product_id)
    IN
    /\ variant = "backend" /\ Quiet /\ Room /\ MayRun(0)
    /\ product' = r.coll
    /\ last' = IF ~r.ret
               THEN Reply("delete_product", args, 404, "Product not found", <<>>)
               ELSE Reply("delete_product", args, 200, "", <<>>)
    /\ inflight' = Others(0, Idle)
    /\ UNCHANGED <<variant, dbOk, order, nextOid, now>>

\* create_order up to the `await insert_one` of create_document, which has read the
\* clock; the interpreter decides which sum the total is
BackendCreateOrderStart(p, body) ==
    LET args == [body |-> body]
        o == OrderParse("backend", body)
    IN
    /\ variant = "backend" /\ Quiet /\ Free(p) /\ MayRun(p)
    /\ Issued + Pending < MaxDocs
    /\ \E total \in BuiltinSum(o.items) :
          inflight' = Others(p, [pc |-> "create_order", at |-> "insert_one",
                                 args |-> args,
                                 data |-> create_document_data(
                                              Merge(o, [total |-> AsDecimal(total)]), now)])
    /\ UNCHANGED <<variant, dbOk, product, order, nextOid, now, last>>

\* the insert_one of that create_document
BackendCreateOrderInsert(p) ==
    LET r == inflight[p]
        data == Merge(r.data, [_id |-> nextOid])
    IN
    /\ variant = "backend" /\ Quiet /\ MayRun(p)
    /\ r.pc = "create_order" /\ r.at = "insert_one"
    /\ order' = InsertOne(order, data, nextOid)
    /\ nextOid' = nextOid + 1
    /\ inflight' = Others(p, [pc |-> "create_order", at |-> "find_one",
                              args |-> r.args, data |-> data, oid |-> nextOid])
    /\ UNCHANGED <<variant, dbOk, product, now, last>>

\* create_order from the find_one of create_document to the reply
BackendCreateOrderFind(p) ==
    LET doc == create_document_find(order, inflight[p].oid) IN
    /\ variant = "backend" /\ Quiet /\ MayRun(p)
    /\ inflight[p].pc = "create_order" /\ inflight[p].at = "find_one"
    /\ last' = IF doc = <<>>
               THEN Reply("create_order", inflight[p].args, 500,
                          "Failed to create order", <<>>)
               ELSE Reply("create_order", inflight[p].args, 200, "", <<Order(doc[1])>>)
    /\ inflight' = Others(p, Idle)
    /\ UNCHANGED <<variant, dbOk, product, order, nextOid, now>>

BackendListOrders(limit) ==
    LET args == [limit |-> limit]
        docs == get_documents(order, MatchAll, limit)
    IN
    /\ variant = "backend" /\ Quiet /\ Room /\ MayRun(0)
    /\ last' = Reply("list_orders", args, 200, "",
                     [i \in 1..Len(docs) |-> Order(docs[i])])
    /\ inflight' = Others(0, Idle)
    /\ UNCHANGED <<variant, dbOk, product, order, nextOid, now>>

\* startup, the emptiness read: existing = await get_documents("product", {}, 1)
BackendSeedCheck(p) ==
    /\ variant = "backend" /\ Quiet /\ Free(p) /\ MayRun(p)
    /\ IF get_documents(product, MatchAll, 1) # <<>>
       THEN /\ last' = Started
            /\ inflight' = Others(p, Idle)
       ELSE /\ inflight' = Others(p, [pc |-> "seed_products"])
            /\ UNCHANGED last
    /\ UNCHANGED <<variant, dbOk, product, order, nextOid, now>>

\* the routine resumes, into the loop (first sample) or on to the next sample:
\* create_document up to its `await insert_one`, which has read the clock
BackendSeedClock(p) ==
    LET r == inflight[p] IN
    /\ variant = "backend" /\ Quiet /\ MayRun(p)
    /\ r.pc \in {"seed_products", "seed_clock"}
    /\ inflight' = Others(p, IF r.pc = "seed_products"
                             THEN [pc |-> "seed_insert", k |-> 1, oid |-> 0, t |-> now,
                                   hot |-> TRUE, yields |-> 0]
                             ELSE [r EXCEPT !.pc = "seed_insert", !.t = now, !.hot = TRUE])
    /\ UNCHANGED <<variant, dbOk, product, order, nextOid, now, last>>

\* for s in samples: create_document("product", s.model_dump()), its insert_one
BackendSeedInsert(p) ==
    LET r == inflight[p]
        data == create_document_data(ProductDump("backend", BackendSamples[r.k]), r.t)
    IN
    /\ variant = "backend" /\ Quiet /\ MayRun(p)
    /\ r.pc = "seed_insert"
    /\ product' = InsertOne(product, data, nextOid)
    /\ nextOid' = nextOid + 1
    /\ inflight' = Others(p, [r EXCEPT !.pc = "seed_find", !.oid = nextOid, !.hot = TRUE])
    /\ UNCHANGED <<variant, dbOk, order, now, last>>

\* the find_one of that create_document, whose result the loop drops; the routine
\* returns after the last sample
BackendSeedFind(p) ==
    LET r == inflight[p] IN
    /\ variant = "backend" /\ Quiet /\ MayRun(p)
    /\ r.pc = "seed_find"
    /\ IF r.k = Len(BackendSamples)
       THEN /\ last' = Started
            /\ inflight' = Others(p, Idle)
       ELSE /\ inflight' = Others(p, [r EXCEPT !.pc = "seed_clock", !.k = @ + 1,
                                                !.oid = 0, !.t = 0, !.hot = TRUE])
            /\ UNCHANGED last
    /\ UNCHANGED <<variant, dbOk, product, order, nextOid, now>>

(***************************************************************************)
(* Specification: the requests of a running deployment                     *)
(***************************************************************************)
Next ==
    \/ Tick
    \/ SendReply
    \/ \E f \in FilterInputs : RootListProducts(f.q, f.category, f.categories)
    \/ \E p \in Processes, body \in ProductBodies : RootCreateProductStart(p, body)
    \/ \E p \in Processes : RootCreateProductInsert(p)
    \/ \E p \in Processes : RootCreateProductFind(p)
    \/ \E id \in IdInputs : RootGetProduct(id)
    \/ \E p \in Processes, id \in IdInputs, body \in ProductBodies :
          RootUpdateProductStart(p, id, body)
    \/ \E p \in Processes : RootUpdateProductWrite(p)
    \/ \E p \in Processes : RootUpdateProductFind(p)
    \/ \E id \in IdInputs : RootDeleteProduct(id)
    \/ \E p \in Processes, body \in OrderBodies : RootCreateOrderStart(p, body)
    \/ \E p \in Processes : RootCreateOrderClock(p)
    \/ \E p \in Processes : RootCreateOrderInsert(p)
    \/ \E p \in Processes : RootCreateOrderFind(p)
    \/ \E p \in Processes, body \in ProductBodies : BackendCreateProductStart(p, body)
    \/ \E p \in Processes : BackendCreateProductInsert(p)
    \/ \E p \in Processes : BackendCreateProductFind(p)
    \/ \E f \in BackendListInputs :
          BackendListProducts(f.q, f.category, f.categories, f.limit)
    \/ \E id \in IdInputs : BackendGetProduct(id)
    \/ \E p \in Processes, id \in IdInputs, body \in ProductBodies :
          BackendUpdateProductStart(p, id, body)
    \/ \E p \in Processes : BackendUpdateProductWrite(p)
    \/ \E p \in Processes : BackendUpdateProductFind(p)
    \/ \E id \in IdInputs : BackendDeleteProduct(id)
    \/ \E p \in Processes, body \in OrderBodies : BackendCreateOrderStart(p, body)
    \/ \E p \in Processes : BackendCreateOrderInsert(p)
    \/ \E p \in Processes : BackendCreateOrderFind(p)
    \/ \E limit \in LimitInputs : BackendListOrders(limit)

Spec == Init /\ [][Next]_vars

(***************************************************************************)
(* Specification: processes that start (seed_products) while running ones  *)
(* serve the requests that change what the emptiness read of seed_products *)
(* sees: creates and deletes of products                                   *)
(***************************************************************************)
\* the requests served while processes start: deletes of the first identifier the
\* store hands out, creates with the product body of required fields only
StartupIds == {StrId(FirstOid)}

StartupProducts == {b \in ProductBodies : DOMAIN b = {"name", "price"}}

SeedNext ==
    \/ Tick
    \/ SendReply
    \/ \E p \in Processes : RootSeedCount(p)
    \/ \E p \in Processes : RootSeedClock(p)
    \/ \E p \in Processes : RootSeedInsert(p)
    \/ \E p \in Processes : RootSeedInsertNext(p)
    \/ \E p \in Processes : BackendSeedCheck(p)
    \/ \E p \in Processes : BackendSeedClock(p)
    \/ \E p \in Processes : BackendSeedInsert(p)
    \/ \E p \in Processes : BackendSeedFind(p)
    \/ \E p \in Processes, body \in StartupProducts : RootCreateProductStart(p, body)
    \/ \E p \in Processes : RootCreateProductInsert(p)
    \/ \E p \in Processes : RootCreateProductFind(p)
    \/ \E id \in StartupIds : RootDeleteProduct(id)
    \/ \E p \in Processes, body \in StartupProducts : BackendCreateProductStart(p, body)
    \/ \E p \in Processes : BackendCreateProductInsert(p)
    \/ \E p \in Processes : BackendCreateProductFind(p)
    \/ \E id \in StartupIds : BackendDeleteProduct(id)

SpecSeed == Init /\ [][SeedNext]_vars

(***************************************************************************)
(* Outcomes, as the caller tells them apart                                *)
(***************************************************************************)
Outcome(r) ==
    CASE r.status = 400 -> "InvalidIdentifier"
      [] r.status = 404 -> "NotFound"
      [] r.status = 500 /\ r.detail = "Database not configured" -> "StorageUnavailable"
      [] r.status = 500 /\ r.detail # "Database not configured" -> "Failed"
      [] r.status \in {200, 201, 204} -> "Ok"
      [] OTHER -> "None"

IdOps == {"get_product", "update_product", "delete_product"}

\* a step in which a handler answered
Answered == last' # last /\ last' # NoReply

\* a step of get, update or delete of a product that answered
IdStep == Answered /\ last'.op \in IdOps

\* the processes whose handler ended in this step (a handler served in one step
\* never shows in inflight)
Enders == {p \in Processes : inflight[p] # Idle /\ ~Looping(inflight[p]) /\ inflight'[p] = Idle}

\* the processes whose update made its update_one in this step
Writers ==
    {p \in Processes :
        /\ inflight[p].pc = "update_product" /\ inflight[p].at = "update_one"
        /\ inflight'[p] # inflight[p]}

\* did the update_one of the handler with locals r match a record
Matched(r) == "matched" \in DOMAIN r /\ r.matched

(***************************************************************************)
(* C1: with a store connection, get, update and delete of an identifier    *)
(* string that does not parse answer InvalidIdentifier (never NotFound)    *)
(* and leave both collections as they were.                                *)
(***************************************************************************)
C1_InvalidIdentifier ==
    [][(IdStep /\ dbOk /\ ~ValidId(last'.args.id))
          => /\ Outcome(last') = "InvalidIdentifier"
             /\ product' = product
             /\ order' = order]_vars

(***************************************************************************)
(* C2: with a store connection, get, update and delete of a well-formed    *)
(* identifier that matches no product (at any store call of the request)   *)
(* answer NotFound and leave both collections as they were; so does a      *)
(* delete repeated after a delete.                                         *)
(***************************************************************************)
C2_NotFound ==
    [][/\ (/\ IdStep /\ dbOk /\ ValidId(last'.args.id)
           /\ FindOne(product, ObjectId(last'.args.id)) = <<>>
           /\ \A p \in Enders : ~Matched(inflight[p]))
             => /\ Outcome(last') = "NotFound"
                /\ product' = product
                /\ order' = order
       /\ \A p \in Writers :
             MatchedCount(product, inflight[p].oid) = 0
                 => (product' = product /\ order' = order)]_vars

\* a delete answered NotFound for the identifier of a product deleted before
C2_Witness ==
    /\ last.op = "delete_product"
    /\ Outcome(last) = "NotFound"
    /\ ValidId(last.args.id)
    /\ ObjectId(last.args.id) \in FirstOid..(nextOid - 1)
    /\ FindOne(product, ObjectId(last.args.id)) = <<>>
    /\ FindOne(order, ObjectId(last.args.id)) = <<>>

(***************************************************************************)
(* C3: a successful create of a record that nothing has written to since   *)
(* its insert returns a record with a string identifier and                *)
(* created_at = updated_at, and reading that identifier back gives a       *)
(* record with the same identifier that agrees with the request on every   *)
(* field the caller supplied.                                              *)
(***************************************************************************)
CreateOps == {"create_product", "create_order"}

\* the fields of the request that the handler's request schema declares
SuppliedFields(op, body) ==
    (DOMAIN body) \cap (IF op = "create_order" THEN OrderInFields(variant)
                        ELSE ProductInFields)

CollectionOf(op) == IF op = "create_order" THEN order ELSE product

\* the same collection after the step
CollectionAfter(op) == IF op = "create_order" THEN order' ELSE product'

C3_CreateThenGet ==
    [][\A p \in Enders :
          (/\ Answered /\ inflight[p].pc \in CreateOps /\ Outcome(last') = "Ok"
           /\ FindOne(CollectionOf(inflight[p].pc), inflight[p].oid) = <<inflight[p].data>>)
             => /\ last'.ret # <<>>
                /\ LET r == last'.ret[1]
                       body == last'.args.body
                       got == IF ValidId(r.id)
                              THEN FindOne(CollectionAfter(last'.op), ObjectId(r.id))
                              ELSE <<>>
                   IN /\ ValidId(r.id)
                      /\ r.created_at = r.updated_at
                      /\ got # <<>>
                      /\ StrId(got[1]["_id"]) = r.id
                      /\ \A k \in SuppliedFields(last'.op, body) : got[1][k] = body[k]]_vars

(***************************************************************************)
(* C4: in every reachable state every stored record has one identifier the *)
(* store handed out, unique in its collection, and updated_at >=           *)
(* created_at; no step changes the created_at of a record, and a record    *)
(* that appears carries a created_at that the clock has shown.             *)
(***************************************************************************)
WellStamped(coll) ==
    /\ \A i \in 1..Len(coll) :
          /\ "_id" \in DOMAIN coll[i]
          /\ coll[i]["_id"] \in FirstOid..(nextOid - 1)
          /\ coll[i].updated_at >= coll[i].created_at
          /\ coll[i].created_at <= now
    /\ Cardinality({coll[i]["_id"] : i \in 1..Len(coll)}) = Len(coll)

\* the records of coll that are still in `after` have the created_at they had
Kept(coll, after) ==
    \A i \in 1..Len(coll), j \in 1..Len(after) :
        coll[i]["_id"] = after[j]["_id"] => coll[i].created_at = after[j].created_at

C4_RecordInvariant ==
    [][/\ WellStamped(product)' /\ WellStamped(order)'
       /\ Kept(product, product') /\ Kept(order, order')]_vars

(***************************************************************************)
(* C5: the write of an update that matches overwrites exactly the fields   *)
(* the caller gave, leaves every other field of the record and every other *)
(* record as it was and does not move updated_at backwards; a successful   *)
(* update returns the record as stored.                                    *)
(***************************************************************************)
C5_UpdateFrame ==
    [][/\ \A p \in Writers :
             MatchedCount(product, inflight[p].oid) = 1 =>
                LET oid == inflight[p].oid
                    body == inflight[p].args.body
                    old == FindOne(product, oid)[1]
                    new == FindOne(product', oid)[1]
                IN /\ \A k \in DOMAIN body : new[k] = body[k]
                   /\ \A k \in (DOMAIN old) \ ((DOMAIN body) \cup {"updated_at"}) :
                         new[k] = old[k]
                   /\ new.updated_at >= old.updated_at
                   /\ Len(product') = Len(product)
                   /\ \A i \in 1..Len(product) :
                         product[i]["_id"] # oid => product'[i] = product[i]
                   /\ order' = order
       /\ \A p \in Enders :
             (/\ Answered /\ inflight[p].pc = "update_product" /\ Outcome(last') = "Ok"
              /\ FindOne(product, inflight[p].oid) # <<>>)
                => /\ last'.ret # <<>>
                   /\ last'.ret[1].id = StrId(inflight[p].oid)
                   /\ \A k \in ProductInFields \cup {"created_at", "updated_at"} :
                         last'.ret[1][k] = FindOne(product, inflight[p].oid)[1][k]]_vars

(***************************************************************************)
(* Listings                                                                *)
(***************************************************************************)
ListOk == last.op = "list_products" /\ Outcome(last) = "Ok"

\* the limit a listing ran under: the parameter, or its documented default
LimitOf(args) == IF "limit" \in DOMAIN args THEN args.limit ELSE DefaultLimit

\* the listing was not cut short by its limit
Untruncated == LimitOf(last.args) = DefaultLimit

ReturnedIds == {last.ret[i].id : i \in 1..Len(last.ret)}

IdsOf(docs) == {StrId(docs[i]["_id"]) : i \in 1..Len(docs)}

\* sub occurs in s, character for character
Contains(s, sub) ==
    \E o \in 0..(Len(s) - Len(sub)) : \A i \in 1..Len(sub) : s[o + i] = sub[i]

\* q is a case-insensitive substring of the name or of the description
TextDimension(q, d) ==
    \/ Contains(Lower(d.name), Lower(q))
    \/ \E s \in Range(d.description) : Contains(Lower(s), Lower(q))

(***************************************************************************)
(* C6: a listing given only a non-empty q returns exactly the products     *)
(* whose name or description contains q as a case-insensitive substring.   *)
(***************************************************************************)
C6_TextQuery ==
    (/\ ListOk /\ Untruncated
     /\ last.args.q # <<>> /\ last.args.category = <<>> /\ last.args.categories = <<>>)
        => ReturnedIds =
             IdsOf(SelectSeq(product, LAMBDA d : TextDimension(last.args.q, d)))

(***************************************************************************)
(* C7: a listing given both category and categories returns what the same  *)
(* listing returns without categories.                                     *)
(***************************************************************************)
C7_CategoryWins ==
    (/\ ListOk /\ Untruncated
     /\ last.args.category # <<>> /\ last.args.categories # <<>>)
        => ReturnedIds =
             IdsOf(Find(product,
                        BuildFilter(variant, last.args.q, last.args.category, <<>>)))

(***************************************************************************)
(* C8: every record a listing returns satisfies each dimension supplied:   *)
(* q matches its name or description, a supplied category is among its     *)
(* categories, and, with no category supplied, its categories meet the     *)
(* trimmed non-blank entries of `categories` when there are any.  A        *)
(* listing given only `categories` returns every product whose categories  *)
(* meet those entries, and a listing given nothing, or only blank entries, *)
(* returns every product.                                                  *)
(***************************************************************************)
\* the entries of a comma-separated list without the blanks around them, stated
\* on the string: a stretch with no comma, no whitespace at either end, reaching
\* the neighbouring commas (or the ends of the string) through whitespace only
Entries(s) ==
    {SubSeq(s, i, j) : <<i, j>> \in
        {p \in (1..Len(s)) \X (1..Len(s)) :
            /\ p[1] <= p[2]
            /\ \A k \in p[1]..p[2] : s[k] # ","
            /\ s[p[1]] \notin Whitespace /\ s[p[2]] \notin Whitespace
            /\ \E a \in 0..(p[1] - 1) :
                  /\ a = 0 \/ s[a] = ","
                  /\ \A k \in (a + 1)..(p[1] - 1) : s[k] \in Whitespace
            /\ \E b \in (p[2] + 1)..(Len(s) + 1) :
                  /\ b = Len(s) + 1 \/ s[b] = ","
                  /\ \A k \in (p[2] + 1)..(b - 1) : s[k] \in Whitespace}}

PatternDimension(q, r) ==
    RegexSearch(q, r.name) \/ \E s \in Range(r.description) : RegexSearch(q, s)

C8_FilterComposition ==
    ListOk =>
        LET q == last.args.q
            category == last.args.category
            entries == Entries(last.args.categories)
        IN /\ \A i \in 1..Len(last.ret) :
                 LET r == last.ret[i]
                 IN /\ q # <<>> => PatternDimension(q, r)
                    /\ category # <<>> => category \in Range(r.categories)
                    /\ (category = <<>> /\ entries # {})
                           => Range(r.categories) \cap entries # {}
           /\ (Untruncated /\ q = <<>> /\ category = <<>> /\ entries # {})
                  => ReturnedIds =
                       IdsOf(SelectSeq(product,
                                       LAMBDA d : Range(d.categories) \cap entries # {}))
           /\ (Untruncated /\ q = <<>> /\ category = <<>> /\ entries = {})
                  => ReturnedIds = IdsOf(product)

\* a listing by q and a two-entry categories list that kept one product and dropped another
C8_Witness ==
    /\ ListOk
    /\ last.args.q # <<>>
    /\ Cardinality(Entries(last.args.categories)) = 2
    /\ last.ret # <<>>
    /\ Len(last.ret) < Len(product)

(***************************************************************************)
(* C9: a listing returns at most `limit` records (50 when the caller gives *)
(* none; none at all for a limit of 0 or below), each of them matching the *)
(* filter, for every integer limit.                                        *)
(***************************************************************************)
Max(a, b) == IF a >= b THEN a ELSE b

ListOps == {"list_products", "list_orders"}

C9_LimitRespected ==
    (last.op \in ListOps /\ Outcome(last) = "Ok")
        => /\ Len(last.ret) <= Max(0, LimitOf(last.args))
           /\ last.op = "list_products" =>
                 ReturnedIds \subseteq
                     IdsOf(Find(product,
                                BuildFilter(variant, last.args.q, last.args.category,
                                            last.args.categories)))

(***************************************************************************)
(* C10: for items priced in whole minor units, every stored order carries  *)
(* a total equal to the sum of price x quantity over its items (whatever   *)
(* happened to products since), and create_order returns that total.       *)
(***************************************************************************)
WholeMinorUnits(items) == \A i \in 1..Len(items) : items[i].price % MinorUnit = 0

\* the sum of price x quantity, in thousandths
RECURSIVE ExactTotal(_)
ExactTotal(items) ==
    IF items = <<>> THEN 0
    ELSE items[1].price * items[1].quantity + ExactTotal(Tail(items))

\* the float of that sum
Exactly(items) == [dec |-> ExactTotal(items), ulps |-> 0]

C10_OrderTotal ==
    /\ \A i \in 1..Len(order) :
          WholeMinorUnits(order[i].items) => order[i].total = Exactly(order[i].items)
    /\ (last.op = "create_order" /\ Outcome(last) = "Ok"
        /\ WholeMinorUnits(last.args.body.items))
          => /\ last.ret # <<>>
             /\ "total" \in DOMAIN last.ret[1]
             /\ last.ret[1]["total"] = Exactly(last.args.body.items)

(***************************************************************************)
(* C11: while no connection is configured, every store operation (create,  *)
(* list, get, update, delete of products, create of orders) is answered    *)
(* StorageUnavailable, whatever its identifier looks like, and no step     *)
(* writes to a collection or draws an identifier.                          *)
(***************************************************************************)
StoreOps == {"create_product", "list_products", "get_product", "update_product",
             "delete_product", "create_order"}

C11_StorageUnavailable ==
    [][~dbOk =>
          /\ product' = product /\ order' = order /\ nextOid' = nextOid
          /\ (Answered /\ last'.op \in StoreOps)
                 => Outcome(last') = "StorageUnavailable"]_vars

\* an update with a malformed identifier, answered StorageUnavailable
C11_Witness ==
    /\ ~dbOk
    /\ last.op = "update_product"
    /\ ~ValidId(last.args.id)
    /\ Outcome(last) = "StorageUnavailable"
    /\ product = <<>> /\ order = <<>>

(***************************************************************************)
(* C12: however concurrent create, update and delete requests interleave,  *)
(* a request that reports failure (NotFound, InvalidIdentifier or 'Failed  *)
(* to create') has not applied its write to the store, and a successful    *)
(* update returns a record whose caller-supplied fields are the values     *)
(* that caller sent.                                                       *)
(***************************************************************************)
Failure == {"NotFound", "InvalidIdentifier", "Failed"}

\* did the write of the handler that r belongs to change its collection
Applied(r) == IF r.pc = "update_product" THEN Matched(r) ELSE TRUE

C12_NoPartialSuccess ==
    [][Answered =>
          /\ Outcome(last') \in Failure
                => /\ product' = product /\ order' = order
                   /\ \A p \in Enders : ~Applied(inflight[p])
          /\ (last'.op = "update_product" /\ Outcome(last') = "Ok")
                => /\ last'.ret # <<>>
                   /\ \A k \in SuppliedFields(last'.op, last'.args.body) :
                         last'.ret[1][k] = last'.args.body[k]]_vars

(***************************************************************************)
(* C13: however many processes start, one after another or at once, the    *)
(* product collection holds each sample product of the seed catalog at     *)
(* most once.                                                              *)
(***************************************************************************)
SampleNames ==
    IF variant = "root" THEN {RootSamples[i].name : i \in 1..Len(RootSamples)}
    ELSE {BackendSamples[i].name : i \in 1..Len(BackendSamples)}

Copies(name) == Cardinality({j \in 1..Len(product) : product[j].name = name})

C13_SeedOnce == \A name \in SampleNames : Copies(name) <= 1

====
